---------------------------- MODULE Spec2Model ----------------------------
(***************************************************************************)
(* Model of the critical-issue detection engine of MAITRI                  *)
(* (src/critical_detector.py, class CriticalIssueDetector).                *)
(*                                                                         *)
(* Conventions                                                             *)
(*   - an instant (datetime) is an integer number of seconds;              *)
(*   - an ISO-8601 string is a record [fmt, t]: fmt = "iso" when           *)
(*     datetime.fromisoformat accepts it, anything else makes it raise     *)
(*     ValueError;                                                         *)
(*   - a confidence is an integer number of hundredths (0.7 is 70);        *)
(*   - a Python dict is a TLA+ record; a key the dict does not hold is a   *)
(*     field the record does not have;                                     *)
(*   - an optional value is a sequence of length <= 1: None is << >>.      *)
(***************************************************************************)
EXTENDS Integers, Sequences, FiniteSets, TLC

VARIABLES
    now,                 \* the wall clock, datetime.now()
    issue_history,       \* CriticalIssueDetector.issue_history
    critical_thresholds, \* CriticalIssueDetector.critical_thresholds
    call,                \* the last operation: its arguments and what it returned
    ticks,               \* how many times the clock has advanced (bounds the model)
    emotion_history,     \* MAITRI.emotion_history, the caller's observation buffer
    intervention_level,  \* ConversationAI.intervention_level
    conversation_history \* ConversationAI.conversation_history

\* the state of the callers of the detector
others == <<emotion_history, intervention_level, conversation_history>>

vars == <<now, issue_history, critical_thresholds, call, ticks, others>>

-----------------------------------------------------------------------------
(* Bounds of the model *)

MaxObs == 5        \* longest exhaustively enumerated observation sequence
MaxLong == 17      \* longest patterned (alternating) observation sequence
MaxHist == 2       \* check_critical_issues is not called once the history is this long
MaxClock == 2      \* number of clock advances between calls
MaxArrivals == 130 \* observations appended to the caller's buffer
MaxTalk == 2       \* generate_response is not called once the conversation is this long

-----------------------------------------------------------------------------
(* Python values *)

None == << >>
Some(v) == <<v>>

\* dict.get(key, default)
Get(d, key, default) == IF key \in DOMAIN d THEN d[key] ELSE default

\* dict.get(key) for a string-valued key: None when the key is absent
GetOpt(d, key) == IF key \in DOMAIN d THEN Some(d[key]) ELSE None

\* truth value of an optional string: None and '' are falsy
Truthy(v) == v # None /\ v # Some("")

\* datetime.isoformat()
IsoFormat(t) == [fmt |-> "iso", t |-> t]

\* datetime.fromisoformat(s) raises ValueError on a string it cannot parse
FromIsoFormatRaises(s) == s.fmt # "iso"

\* datetime.fromisoformat(s) on a string it can parse
FromIsoFormat(s) == s.t

RECURSIVE GCD(_, _)
GCD(a, b) == IF b = 0 THEN a ELSE GCD(b, a % b)

\* the float n / d, kept exact as a reduced fraction
Frac(n, d) == LET g == GCD(n, d) IN [num |-> n \div g, den |-> d \div g]

SecondsPerMinute == 60
SecondsPerHour == 3600

-----------------------------------------------------------------------------
(* CriticalIssueDetector.__init__ *)

\* InitialThresholds with the silence before a breakdown set to one hour
InitialThresholds_hour ==
    [sustained_negative_emotion |->
        [emotion |-> {"sad", "angry", "fearful"},
         duration_minutes |-> 15,
         confidence_threshold |-> 70],
     rapid_emotion_swings |->
        [swings_per_minute |-> 3,
         time_window_minutes |-> 5],
     extreme_emotion |->
        [emotion |-> {"angry", "fearful"},
         confidence_threshold |-> 90,
         duration_minutes |-> 5],
     communication_breakdown |->
        [no_response_minutes |-> 60]]

InitialThresholds ==
    [sustained_negative_emotion |->
        [emotion |-> {"sad", "angry", "fearful"},
         duration_minutes |-> 15,
         confidence_threshold |-> 70],
     rapid_emotion_swings |->
        [swings_per_minute |-> 3,
         time_window_minutes |-> 5],
     extreme_emotion |->
        [emotion |-> {"angry", "fearful"},
         confidence_threshold |-> 90,
         duration_minutes |-> 5],
     communication_breakdown |->
        [no_response_minutes |-> 30]]

-----------------------------------------------------------------------------
(* The window filter shared by the three emotion rules:                    *)
(*   [e for e in emotion_data                                              *)
(*    if (now - datetime.fromisoformat(e.get('timestamp', now.isoformat()))*)
(*       ).total_seconds() / 60 <= duration]                               *)

\* TimestampOf with a missing timestamp read as one day old
TimestampOf_old(e, t) == Get(e, "timestamp", IsoFormat(t - 24 * SecondsPerHour))

TimestampOf(e, t) == Get(e, "timestamp", IsoFormat(t))

\* the comprehension raises ValueError when one timestamp cannot be parsed
WindowRaises(emotion_data, t) ==
    \E i \in 1..Len(emotion_data) : FromIsoFormatRaises(TimestampOf(emotion_data[i], t))

\* InWindow with the edge of the window left out (< for <=)
InWindow_strict(e, t, minutes) ==
    t - FromIsoFormat(TimestampOf(e, t)) < minutes * SecondsPerMinute

InWindow(e, t, minutes) ==
    t - FromIsoFormat(TimestampOf(e, t)) <= minutes * SecondsPerMinute

RecentEmotions(emotion_data, t, minutes) ==
    SelectSeq(emotion_data, LAMBDA e : InWindow(e, t, minutes))

\* what a rule hands back: it raises, or returns None or one issue
Raise == [raised |-> TRUE, ret |-> None]
Return(v) == [raised |-> FALSE, ret |-> v]


-----------------------------------------------------------------------------
(* CriticalIssueDetector._check_sustained_negative_emotion; t is the value *)
(* its datetime.now() returns                                              *)

\* IsNegative with the confidence cutoff made exclusive (> for >=)
IsNegative_strict(e, negative_emotions, confidence_threshold) ==
    /\ GetOpt(e, "dominant_emotion") # None
    /\ e.dominant_emotion \in negative_emotions
    /\ Get(e, "confidence", 0) > confidence_threshold

\* IsNegative that looks at the label alone
IsNegative_label(e, negative_emotions, confidence_threshold) ==
    /\ GetOpt(e, "dominant_emotion") # None
    /\ e.dominant_emotion \in negative_emotions

\* IsNegative with the facial label fear read as fearful
IsNegative_facial(e, negative_emotions, confidence_threshold) ==
    /\ GetOpt(e, "dominant_emotion") # None
    /\ (IF e.dominant_emotion = "fear" THEN "fearful" ELSE e.dominant_emotion)
           \in negative_emotions
    /\ Get(e, "confidence", 0) >= confidence_threshold

\* lines 114-115: e.get('dominant_emotion') in negative_emotions
\*                and e.get('confidence', 0) >= confidence_threshold
IsNegative(e, negative_emotions, confidence_threshold) ==
    /\ GetOpt(e, "dominant_emotion") # None
    /\ e.dominant_emotion \in negative_emotions
    /\ Get(e, "confidence", 0) >= confidence_threshold

check_sustained_negative_emotion(emotion_data, t) ==
    IF Len(emotion_data) < 5 THEN Return(None)
    ELSE
    LET threshold == critical_thresholds.sustained_negative_emotion
        negative_emotions == threshold.emotion
        duration == threshold.duration_minutes
        confidence_threshold == threshold.confidence_threshold
    IN  IF WindowRaises(emotion_data, t) THEN Raise
        ELSE
        LET recent_emotions == RecentEmotions(emotion_data, t, duration)
            negative_count ==
                Len(SelectSeq(recent_emotions,
                      LAMBDA e : IsNegative(e, negative_emotions, confidence_threshold)))
        IN  IF Len(recent_emotions) < 3 THEN Return(None)
            \* negative_count >= len(recent_emotions) * 0.7
            ELSE IF 10 * negative_count >= 7 * Len(recent_emotions)
            THEN Return(Some(
                   [type |-> "sustained_negative_emotion",
                    severity |-> "high",
                    details |->
                      [emotion |-> GetOpt(recent_emotions[Len(recent_emotions)],
                                          "dominant_emotion"),
                       duration_minutes |-> duration,
                       negative_percentage |->
                           Frac(negative_count * 100, Len(recent_emotions))],
                    recommendation |->
                      "Immediate psychological support recommended. Consider ground control notification."]))
            ELSE Return(None)

-----------------------------------------------------------------------------
(* CriticalIssueDetector._check_rapid_emotion_swings *)

\* SwingLoop that never moves prev_emotion past the first observation
SwingLoop_first(recent_emotions, n) ==
    [emotion_changes |->
        Cardinality({i \in 2..n :
            GetOpt(recent_emotions[i], "dominant_emotion")
                # GetOpt(recent_emotions[1], "dominant_emotion")}),
     prev_emotion |->
        IF n = 0 THEN None ELSE GetOpt(recent_emotions[1], "dominant_emotion")]

\* the loop of lines 152-158: (emotion_changes, prev_emotion) after the
\* first n elements of recent_emotions
RECURSIVE SwingLoop(_, _)
SwingLoop(recent_emotions, n) ==
    IF n = 0 THEN [emotion_changes |-> 0, prev_emotion |-> None]
    ELSE LET before == SwingLoop(recent_emotions, n - 1)
             current == GetOpt(recent_emotions[n], "dominant_emotion")
         IN  [emotion_changes |->
                 IF Truthy(before.prev_emotion) /\ current # before.prev_emotion
                 THEN before.emotion_changes + 1
                 ELSE before.emotion_changes,
              prev_emotion |-> current]

check_rapid_emotion_swings(emotion_data, t) ==
    IF Len(emotion_data) < 5 THEN Return(None)
    ELSE
    LET threshold == critical_thresholds.rapid_emotion_swings
        swings_per_minute == threshold.swings_per_minute
        time_window == threshold.time_window_minutes
    IN  IF WindowRaises(emotion_data, t) THEN Raise
        ELSE
        LET recent_emotions == RecentEmotions(emotion_data, t, time_window)
            emotion_changes ==
                SwingLoop(recent_emotions, Len(recent_emotions)).emotion_changes
        IN  IF Len(recent_emotions) < 3 THEN Return(None)
            ELSE IF emotion_changes >= swings_per_minute * time_window
            THEN Return(Some(
                   [type |-> "rapid_emotion_swings",
                    severity |-> "medium",
                    details |->
                      [swings_detected |-> emotion_changes,
                       time_window_minutes |-> time_window],
                    recommendation |->
                      "Monitor closely. May indicate stress or instability."]))
            ELSE Return(None)

-----------------------------------------------------------------------------
(* CriticalIssueDetector._check_extreme_emotion *)

\* IsExtreme with the two tests joined by `or` for `and`
IsExtreme_either(e, extreme_emotions, confidence_threshold) ==
    \/ /\ GetOpt(e, "dominant_emotion") # None
       /\ e.dominant_emotion \in extreme_emotions
    \/ Get(e, "confidence", 0) >= confidence_threshold

\* IsExtreme with an absent confidence read as 1.0
IsExtreme_default(e, extreme_emotions, confidence_threshold) ==
    /\ GetOpt(e, "dominant_emotion") # None
    /\ e.dominant_emotion \in extreme_emotions
    /\ Get(e, "confidence", 100) >= confidence_threshold

\* lines 196-197: e.get('dominant_emotion') in extreme_emotions
\*                and e.get('confidence', 0) >= confidence_threshold
IsExtreme(e, extreme_emotions, confidence_threshold) ==
    /\ GetOpt(e, "dominant_emotion") # None
    /\ e.dominant_emotion \in extreme_emotions
    /\ Get(e, "confidence", 0) >= confidence_threshold

check_extreme_emotion(emotion_data, t) ==
    IF emotion_data = << >> THEN Return(None)
    ELSE
    LET threshold == critical_thresholds.extreme_emotion
        extreme_emotions == threshold.emotion
        confidence_threshold == threshold.confidence_threshold
        duration == threshold.duration_minutes
    IN  IF WindowRaises(emotion_data, t) THEN Raise
        ELSE
        LET recent_emotions == RecentEmotions(emotion_data, t, duration)
            extreme_count ==
                Len(SelectSeq(recent_emotions,
                      LAMBDA e : IsExtreme(e, extreme_emotions, confidence_threshold)))
        IN  IF recent_emotions = << >> THEN Return(None)
            ELSE IF extreme_count >= 2
            THEN Return(Some(
                   [type |-> "extreme_emotion",
                    severity |-> "high",
                    details |->
                      [emotion |-> GetOpt(recent_emotions[Len(recent_emotions)],
                                          "dominant_emotion"),
                       confidence |-> Get(recent_emotions[Len(recent_emotions)],
                                          "confidence", 0),
                       occurrences |-> extreme_count],
                    recommendation |->
                      "Immediate attention required. Consider ground control notification."]))
            ELSE Return(None)

-----------------------------------------------------------------------------
(* CriticalIssueDetector._check_communication_breakdown; last_interaction  *)
(* is an optional instant                                                  *)

\* check_communication_breakdown with a severity graded by the silence:
\* low under one hour, high from one hour on
check_communication_breakdown_graded(last_interaction, t) ==
    LET threshold == critical_thresholds.communication_breakdown
        no_response_minutes == threshold.no_response_minutes
    IN  IF last_interaction = None THEN Return(None)
        ELSE
        LET seconds_since == t - last_interaction[1]
        IN  IF seconds_since >= no_response_minutes * SecondsPerMinute
            THEN Return(Some(
                   [type |-> "communication_breakdown",
                    severity |-> IF seconds_since >= SecondsPerHour
                                 THEN "high" ELSE "low",
                    details |->
                      [minutes_since_last_interaction |->
                           Frac(seconds_since, SecondsPerMinute)],
                    recommendation |->
                      "Attempt to re-establish communication. If unsuccessful, notify ground control."]))
            ELSE Return(None)

check_communication_breakdown(last_interaction, t) ==
    LET threshold == critical_thresholds.communication_breakdown
        no_response_minutes == threshold.no_response_minutes
    IN  IF last_interaction = None THEN Return(None)
        ELSE
        LET seconds_since == t - last_interaction[1]
        IN  \* minutes_since = seconds_since / 60 >= no_response_minutes
            IF seconds_since >= no_response_minutes * SecondsPerMinute
            THEN Return(Some(
                   [type |-> "communication_breakdown",
                    severity |-> "high",
                    details |->
                      [minutes_since_last_interaction |->
                           Frac(seconds_since, SecondsPerMinute)],
                    recommendation |->
                      "Attempt to re-establish communication. If unsuccessful, notify ground control."]))
            ELSE Return(None)


-----------------------------------------------------------------------------
(* The clock while check_critical_issues runs.  The method reads           *)
(* datetime.now() once in each rule (lines 102, 142, 184, 222) and once    *)
(* for every issue it logs (line 83); time may pass between two reads.     *)
(* A profile gives, for each of the 8 places a read can happen, the        *)
(* seconds that pass just before it.                                       *)

NumReads == 8

RECURSIVE SumTo(_, _)
SumTo(profile, i) == IF i = 0 THEN 0 ELSE SumTo(profile, i - 1) + profile[i]

\* the values the successive reads return when the call starts at t0
ClockReads(t0, profile) == [i \in 1..NumReads |-> t0 + SumTo(profile, i)]

Steady == [i \in 1..NumReads |-> 0]

\* one second passes before the k-th read
SkewAt(k) == [i \in 1..NumReads |-> IF i = k THEN 1 ELSE 0]

Profiles == {Steady} \cup {SkewAt(k) : k \in 2..NumReads}

-----------------------------------------------------------------------------
(* CriticalIssueDetector.check_critical_issues *)

\* RunRules with the extreme-emotion rule evaluated before the swings rule
RunRules_swapped(emotion_data, last_interaction, reads) ==
    LET sustained == check_sustained_negative_emotion(emotion_data, reads[1])
        swings == check_rapid_emotion_swings(emotion_data, reads[2])
        extreme == check_extreme_emotion(emotion_data, reads[3])
        breakdown == IF last_interaction # None
                     THEN check_communication_breakdown(last_interaction, reads[4])
                     ELSE Return(None)
    IN  IF sustained.raised THEN [raised |-> TRUE, issues |-> << >>, at |-> reads[1]]
        ELSE IF swings.raised THEN [raised |-> TRUE, issues |-> << >>, at |-> reads[2]]
        ELSE IF extreme.raised THEN [raised |-> TRUE, issues |-> << >>, at |-> reads[3]]
        ELSE [raised |-> FALSE,
              issues |-> sustained.ret \o extreme.ret \o swings.ret \o breakdown.ret,
              at |-> reads[NumReads]]

\* lines 57-78: the rules in order; the first one that raises aborts the call
RunRules(emotion_data, last_interaction, reads) ==
    LET sustained == check_sustained_negative_emotion(emotion_data, reads[1])
        swings == check_rapid_emotion_swings(emotion_data, reads[2])
        extreme == check_extreme_emotion(emotion_data, reads[3])
        breakdown == IF last_interaction # None
                     THEN check_communication_breakdown(last_interaction, reads[4])
                     ELSE Return(None)
    IN  IF sustained.raised THEN [raised |-> TRUE, issues |-> << >>, at |-> reads[1]]
        ELSE IF swings.raised THEN [raised |-> TRUE, issues |-> << >>, at |-> reads[2]]
        ELSE IF extreme.raised THEN [raised |-> TRUE, issues |-> << >>, at |-> reads[3]]
        ELSE [raised |-> FALSE,
              issues |-> sustained.ret \o swings.ret \o extreme.ret \o breakdown.ret,
              at |-> reads[NumReads]]

\* LogEntry that keeps the whole issue beside the timestamp
LogEntry_full(issue, t) ==
    [timestamp |-> IsoFormat(t),
     issue_type |-> issue.type,
     severity |-> issue.severity,
     details |-> issue.details,
     recommendation |-> issue.recommendation]

\* lines 81-87: the entry logged for the i-th returned issue
LogEntry(issue, t) ==
    [timestamp |-> IsoFormat(t),
     issue_type |-> issue.type,
     severity |-> issue.severity,
     details |-> issue.details]

\* LogEntries with every issue logged twice
LogEntries_twice(issues, reads) ==
    [i \in 1..(2 * Len(issues)) |-> LogEntry(issues[(i + 1) \div 2], reads[4 + (i + 1) \div 2])]

\* LogEntries that skips an issue whose kind the history already holds
LogEntries_unseen(issues, reads) ==
    LET seen(issue) == \E k \in 1..Len(issue_history) :
                          issue_history[k].issue_type = issue.type
        kept == SelectSeq(issues, LAMBDA issue : ~seen(issue))
    IN  [i \in 1..Len(kept) |-> LogEntry(kept[i], reads[4 + i])]

LogEntries(issues, reads) ==
    [i \in 1..Len(issues) |-> LogEntry(issues[i], reads[4 + i])]

\* check_critical_issues that judges the audio observations with the others
check_critical_issues_audio(emotion_data, audio_data, last_interaction, profile) ==
    LET reads == ClockReads(now, profile)
        heard == IF audio_data = None THEN << >> ELSE audio_data[1]
        run == RunRules(emotion_data \o heard, last_interaction, reads)
    IN  /\ issue_history' = IF run.raised THEN issue_history
                            ELSE issue_history \o LogEntries(run.issues, reads)
        /\ now' = run.at
        /\ call' = [op |-> "check_critical_issues",
                    emotion_data |-> emotion_data,
                    audio_data |-> audio_data,
                    last_interaction |-> last_interaction,
                    reads |-> reads,
                    raised |-> run.raised,
                    result |-> run.issues]
        /\ UNCHANGED critical_thresholds

\* check_critical_issues with the new entries put in front of the history
check_critical_issues_prepend(emotion_data, audio_data, last_interaction, profile) ==
    LET reads == ClockReads(now, profile)
        run == RunRules(emotion_data, last_interaction, reads)
    IN  /\ issue_history' = IF run.raised THEN issue_history
                            ELSE LogEntries(run.issues, reads) \o issue_history
        /\ now' = run.at
        /\ call' = [op |-> "check_critical_issues",
                    emotion_data |-> emotion_data,
                    audio_data |-> audio_data,
                    last_interaction |-> last_interaction,
                    reads |-> reads,
                    raised |-> run.raised,
                    result |-> run.issues]
        /\ UNCHANGED critical_thresholds

check_critical_issues(emotion_data, audio_data, last_interaction, profile) ==
    LET reads == ClockReads(now, profile)
        run == RunRules(emotion_data, last_interaction, reads)
    IN  /\ issue_history' = IF run.raised THEN issue_history
                            ELSE issue_history \o LogEntries(run.issues, reads)
        /\ now' = run.at
        /\ call' = [op |-> "check_critical_issues",
                    emotion_data |-> emotion_data,
                    audio_data |-> audio_data,
                    last_interaction |-> last_interaction,
                    reads |-> reads,
                    raised |-> run.raised,
                    result |-> run.issues]
        /\ UNCHANGED critical_thresholds

-----------------------------------------------------------------------------
(* CriticalIssueDetector.get_issue_history *)

\* IssueHistorySince that leaves out the entry logged exactly at the cutoff
IssueHistorySince_strict(hours, t) ==
    LET cutoff == t - hours * SecondsPerHour
    IN  SelectSeq(issue_history,
                  LAMBDA issue : FromIsoFormat(issue.timestamp) > cutoff)

IssueHistorySince(hours, t) ==
    LET cutoff == t - hours * SecondsPerHour
    IN  SelectSeq(issue_history,
                  LAMBDA issue : FromIsoFormat(issue.timestamp) >= cutoff)

\* get_issue_history that drops from the history what it does not return
get_issue_history_pruning(hours) ==
    /\ call' = [op |-> "get_issue_history",
                hours |-> hours,
                at |-> now,
                result |-> IssueHistorySince(hours, now)]
    /\ issue_history' = IssueHistorySince(hours, now)
    /\ UNCHANGED <<now, critical_thresholds>>

get_issue_history(hours) ==
    /\ call' = [op |-> "get_issue_history",
                hours |-> hours,
                at |-> now,
                result |-> IssueHistorySince(hours, now)]
    /\ UNCHANGED <<now, issue_history, critical_thresholds>>

-----------------------------------------------------------------------------
(* CriticalIssueDetector.generate_report: the text, line by line *)

\* issue['type'].replace('_', ' ').title()
Title(type) ==
    CASE type = "sustained_negative_emotion" -> "Sustained Negative Emotion"
      [] type = "rapid_emotion_swings" -> "Rapid Emotion Swings"
      [] type = "extreme_emotion" -> "Extreme Emotion"
      [] type = "communication_breakdown" -> "Communication Breakdown"

\* issue['severity'].upper()
Upper(severity) ==
    CASE severity = "high" -> "HIGH"
      [] severity = "medium" -> "MEDIUM"
      [] severity = "low" -> "LOW"

\* ReportBlock with the issues numbered from 0
ReportBlock_zero(i, issue) ==
    << [text |-> "Issue #", index |-> i - 1, title |-> Title(issue.type)],
       [text |-> "Severity: ", severity |-> Upper(issue.severity)],
       [text |-> "Details: ", json |-> issue.details],
       [text |-> "Recommendation: ", recommendation |-> issue.recommendation] >>

\* the four lines of lines 253-256 for the i-th issue
ReportBlock(i, issue) ==
    << [text |-> "Issue #", index |-> i, title |-> Title(issue.type)],
       [text |-> "Severity: ", severity |-> Upper(issue.severity)],
       [text |-> "Details: ", json |-> issue.details],
       [text |-> "Recommendation: ", recommendation |-> issue.recommendation] >>

RECURSIVE ReportBlocks(_, _)
ReportBlocks(issues, n) ==
    IF n = 0 THEN << >>
    ELSE ReportBlocks(issues, n - 1) \o ReportBlock(n, issues[n])

\* Report with the header printed for an empty list too
Report_headed(issues, t) ==
    << [text |-> "CRITICAL ISSUE REPORT - ", strftime |-> t],
       [text |-> "=================================================="] >>
    \o ReportBlocks(issues, Len(issues))

Report(issues, t) ==
    IF issues = << >>
    THEN << [text |-> "No critical issues detected. All systems normal."] >>
    ELSE << [text |-> "CRITICAL ISSUE REPORT - ", strftime |-> t],
            [text |-> "=================================================="] >>
         \o ReportBlocks(issues, Len(issues))

generate_report(issues) ==
    /\ call' = [op |-> "generate_report",
                issues |-> issues,
                at |-> now,
                result |-> Report(issues, now)]
    /\ UNCHANGED <<now, issue_history, critical_thresholds>>


-----------------------------------------------------------------------------
(* Observations, as the callers build them (src/main.py lines 80-85,       *)
(* src/app.py lines 218-222)                                               *)

Obs(t, label, conf) ==
    [timestamp |-> IsoFormat(t), dominant_emotion |-> label, confidence |-> conf]

\* an observation whose timestamp string does not parse
BadObs(label, conf) ==
    [timestamp |-> [fmt |-> "garbage", t |-> 0],
     dominant_emotion |-> label, confidence |-> conf]

\* an observation whose label is optional: None leaves the key out
OptObs(t, label, conf) ==
    IF label = None THEN [timestamp |-> IsoFormat(t), confidence |-> conf]
    ELSE Obs(t, label[1], conf)

SeqsUpTo(S, n) == UNION {[1..k -> S] : k \in 0..n}

Repeat(e, n) == [i \in 1..n |-> e]

SomeAudio == Some(<< [emotion |-> "angry", confidence |-> 95] >>)

-----------------------------------------------------------------------------
(* Inputs of a single call on a fresh detector at instant 0: tuples        *)
(* <<emotion_data, audio_data, last_interaction, profile>>                 *)

SustainedAlphabet ==
    {Obs(-900, "sad", 70), Obs(-901, "sad", 70), Obs(-900, "sad", 69),
     Obs(-900, "fearful", 70), Obs(-900, "neutral", 100)}

ExtremeAlphabet ==
    {Obs(0, "angry", 95), Obs(0, "angry", 85), Obs(-300, "angry", 90),
     Obs(-301, "angry", 90), Obs(0, "fearful", 90), Obs(0, "sad", 100)}

NeutralAlphabet ==
    {Obs(0, "neutral", 100), Obs(-901, "neutral", 100), BadObs("neutral", 100)}

MalformedAlphabet == {BadObs("angry", 95), Obs(0, "angry", 95), Obs(0, "sad", 80)}

LastInteractions == {None, Some(-1799), Some(-1800), Some(-1801), Some(-100000)}

\* n observations, the first k sad at 0.7 and the others neutral
Mixed(n, k) ==
    [i \in 1..n |-> IF i <= k THEN Obs(-60, "sad", 70) ELSE Obs(-60, "neutral", 100)]

\* n observations alternating between labels a and b (optional labels) at
\* confidence conf; the first `stale` of them just outside the 5-minute
\* window, the others just inside; with same = 1 the last observation
\* repeats the label before it
Alternating(n, a, b, conf, stale, same) ==
    [i \in 1..n |->
        OptObs(IF i <= stale THEN -301 ELSE -300,
               IF (i + (IF same = 1 /\ i = n THEN 1 ELSE 0)) % 2 = 1 THEN a ELSE b,
               conf)]

\* <<a, b, conf>>
LabelPairs ==
    {<<Some("happy"), Some("sad"), 80>>, <<Some("sad"), Some("sad"), 80>>,
     <<Some("angry"), Some("fearful"), 95>>,
     <<None, Some("sad"), 80>>, <<Some(""), Some("happy"), 80>>}

SustainedCalls ==
    {<<e, None, None, Steady>> : e \in SeqsUpTo(SustainedAlphabet, MaxObs)}

ExtremeCalls ==
    {<<e, None, None, Steady>> : e \in SeqsUpTo(ExtremeAlphabet, MaxObs)}

NeutralCalls ==
    {<<e, a, li, Steady>> :
        e \in SeqsUpTo(NeutralAlphabet, MaxObs),
        a \in {None, SomeAudio},
        li \in LastInteractions}

MalformedCalls ==
    {<<e, None, li, Steady>> :
        e \in SeqsUpTo(MalformedAlphabet, MaxObs), li \in {None, Some(-1801)}}

MixedCalls ==
    UNION {{<<Mixed(n, k), None, None, Steady>> : k \in 0..n} : n \in 0..MaxLong}

AlternatingCalls ==
    {<<Alternating(n, ab[1], ab[2], ab[3], stale, same), None, li, Steady>> :
        n \in 0..MaxLong, ab \in LabelPairs, stale \in 0..2, same \in 0..1,
        li \in {None, Some(-1800)}}

SkewCalls ==
    {<<e, None, li, p>> :
        e \in {<< >>, Repeat(Obs(-300, "angry", 95), 5), Repeat(Obs(-900, "sad", 80), 5)},
        li \in {None, Some(-1799), Some(-1800)},
        p \in Profiles}

\* n observations sad at 0.8, the first `stale` of them just outside the
\* 15-minute window and the others on its edge
AllSad(n, stale) ==
    [i \in 1..n |-> Obs(IF i <= stale THEN -901 ELSE -900, "sad", 80)]

AllSadCalls ==
    {<<AllSad(n, stale), a, li, Steady>> :
        n \in 0..MaxLong, stale \in 0..1,
        a \in {None, SomeAudio}, li \in {None, Some(-1800)}}

\* observations with the confidence or the label left out
FieldAlphabet ==
    {[timestamp |-> IsoFormat(0), dominant_emotion |-> "angry"],
     [timestamp |-> IsoFormat(0), confidence |-> 95],
     Obs(0, "angry", 95)}

FieldCalls ==
    {<<e, None, None, Steady>> : e \in SeqsUpTo(FieldAlphabet, MaxObs)}

\* observations with a confidence outside [0, 1]
RangeAlphabet == {Obs(0, "angry", 150), Obs(0, "angry", -20), Obs(0, "sad", 80)}

RangeCalls ==
    {<<e, None, None, Steady>> : e \in SeqsUpTo(RangeAlphabet, MaxObs)}

\* observations labelled by the facial detector, whose vocabulary has fear
\* and surprise where the rules have fearful
FacialAlphabet ==
    {Obs(0, "fear", 100), Obs(0, "surprise", 100), Obs(0, "fearful", 100)}

FacialCalls ==
    {<<e, None, None, Steady>> : e \in SeqsUpTo(FacialAlphabet, MaxObs)}

\* an observation that has no timestamp
NoStamp(label, conf) == [dominant_emotion |-> label, confidence |-> conf]

\* observations without a timestamp among observations more than a day old
NoStampAlphabet ==
    {NoStamp("angry", 95), Obs(-100000, "angry", 95), Obs(-100000, "neutral", 100)}

\* n observations: `stale` old ones, then happy and sad in turn with no
\* timestamp
NoStampAlternating(n, stale) ==
    [i \in 1..n |->
        IF i <= stale THEN Obs(-100000, "happy", 80)
        ELSE NoStamp(IF i % 2 = 1 THEN "happy" ELSE "sad", 80)]

NoStampCalls ==
    {<<e, None, None, Steady>> : e \in SeqsUpTo(NoStampAlphabet, MaxObs)}
    \cup {<<NoStampAlternating(n, stale), None, None, Steady>> :
             n \in 0..MaxLong, stale \in 0..2}

RuleCalls ==
    SustainedCalls \cup ExtremeCalls \cup NeutralCalls \cup MalformedCalls
    \cup MixedCalls \cup AlternatingCalls \cup SkewCalls \cup AllSadCalls
    \cup FieldCalls \cup RangeCalls \cup FacialCalls
    \cup NoStampCalls

-----------------------------------------------------------------------------
(* Inputs of the calls of a monitoring session, at the current instant     *)

SessionEmotions ==
    {<< >>, <<BadObs("angry", 95)>>, Repeat(Obs(now, "angry", 95), 2),
     Repeat(Obs(now, "sad", 80), 5), Repeat(Obs(now, "angry", 95), 5)}

SessionProfiles == {Steady, SkewAt(6)}

\* the buffer and the last interaction of the previous call, passed again
ResubmittedCalls ==
    IF call.op = "check_critical_issues"
    THEN {<<call.emotion_data, a, call.last_interaction, p>> :
             a \in {None, SomeAudio}, p \in SessionProfiles}
    ELSE {}

SessionCalls ==
    {<<e, None, li, p>> :
        e \in SessionEmotions,
        li \in {None, Some(now - 1800)},
        p \in SessionProfiles}
    \cup ResubmittedCalls

TickSteps == {SecondsPerHour, 24 * SecondsPerHour}

HoursArgs == {0, 1, 24}

-----------------------------------------------------------------------------
(* Specifications *)

Init ==
    /\ now = 0
    /\ issue_history = << >>
    /\ critical_thresholds = InitialThresholds
    /\ call = [op |-> "init"]
    /\ ticks = 0
    /\ emotion_history = << >>
    /\ intervention_level = "normal"
    /\ conversation_history = << >>

\* the clock advances between two calls
Tick ==
    /\ ticks < MaxClock
    /\ \E d \in TickSteps : now' = now + d
    /\ ticks' = ticks + 1
    /\ UNCHANGED <<issue_history, critical_thresholds, call, others>>

\* one call of check_critical_issues; a profile in which time passes counts
\* as an advance of the clock
Check(c) ==
    /\ c[4] # Steady => ticks < MaxClock
    /\ check_critical_issues(c[1], c[2], c[3], c[4])
    /\ ticks' = IF c[4] # Steady THEN ticks + 1 ELSE ticks
    /\ UNCHANGED others

SessionCheck ==
    /\ Len(issue_history) < MaxHist
    /\ \E c \in SessionCalls : Check(c)

History ==
    /\ \E hours \in HoursArgs : get_issue_history(hours)
    /\ UNCHANGED <<ticks, others>>

\* the list a report is made of: empty, the issues the last call returned,
\* or the list of the report before
ReportInputs ==
    {<< >>}
    \cup (IF call.op = "check_critical_issues" THEN {call.result} ELSE {})
    \cup (IF call.op = "generate_report" THEN {call.issues} ELSE {})

Reporting ==
    /\ \E issues \in ReportInputs : generate_report(issues)
    /\ UNCHANGED <<ticks, others>>

\* a monitoring session: calls in any order while the clock advances
Next == Tick \/ SessionCheck \/ History \/ Reporting

Spec == Init /\ [][Next]_vars

\* one call of check_critical_issues on a fresh detector, any input
RuleCheck ==
    /\ call.op = "init"
    /\ \E c \in RuleCalls : Check(c)

NextRules == RuleCheck

SpecRules == Init /\ [][NextRules]_vars

------------------------------------------------------------------------------
(* The observation buffer of the callers: MAITRI.run (src/main.py lines     *)
(* 80-90) and the monitoring tab (src/app.py lines 188-198)                 *)

BufferCap == 100

\* KeepLast that keeps the head of the buffer: emotion_history[:100]
KeepLast_head(history) ==
    IF Len(history) > BufferCap
    THEN SubSeq(history, 1, BufferCap)
    ELSE history

\* if len(self.emotion_history) > 100:
\*     self.emotion_history = self.emotion_history[-100:]
KeepLast(history) ==
    IF Len(history) > BufferCap
    THEN SubSeq(history, Len(history) - BufferCap + 1, Len(history))
    ELSE history

\* one processed frame: the observation is stamped with the clock, which
\* has moved on by the next frame; with no face in the frame the detector
\* answers ('neutral', 1.0)
AppendEmotion ==
    /\ now < MaxArrivals
    /\ emotion_history' = KeepLast(Append(emotion_history, Obs(now, "neutral", 100)))
    /\ now' = now + 1
    /\ UNCHANGED <<issue_history, critical_thresholds, call, ticks,
                   intervention_level, conversation_history>>

\* src/app.py line 118: the reset button empties the buffer
ClearEmotions ==
    /\ emotion_history # << >>
    /\ emotion_history' = << >>
    /\ UNCHANGED <<now, issue_history, critical_thresholds, call, ticks,
                   intervention_level, conversation_history>>

NextBuffer == AppendEmotion \/ ClearEmotions

SpecBuffer == Init /\ [][NextBuffer]_vars

------------------------------------------------------------------------------
(* ConversationAI (src/conversation_ai.py).  The sentence random.choice     *)
(* draws is not modelled: a response is the list of the lists drawn from.   *)

\* emotion.lower(), on the labels the callers pass
Lower(emotion) ==
    CASE emotion = "Angry" -> "angry"
      [] emotion = "SAD" -> "sad"
      [] OTHER -> emotion

\* lines 99-108: the facial emotion, or the audio emotion when it alone is
\* negative
PrimaryEmotion(emotion, audio_emotion) ==
    LET primary_emotion == Lower(emotion)
    IN  IF Truthy(audio_emotion) /\ audio_emotion[1] # primary_emotion
        THEN IF primary_emotion \in {"sad", "angry", "fearful"} THEN primary_emotion
             ELSE IF audio_emotion[1] \in {"sad", "angry", "fearful"} THEN audio_emotion[1]
             ELSE primary_emotion
        ELSE primary_emotion

\* InterventionLevel with the two tests in the other order
InterventionLevel_swapped(primary_emotion, confidence) ==
    IF confidence > 80 /\ primary_emotion \in {"sad", "angry"} THEN "critical"
    ELSE IF confidence > 70 /\ primary_emotion \in {"sad", "angry", "fearful"}
    THEN "supportive"
    ELSE "normal"

\* lines 111-116
InterventionLevel(primary_emotion, confidence) ==
    IF confidence > 70 /\ primary_emotion \in {"sad", "angry", "fearful"}
    THEN "supportive"
    ELSE IF confidence > 80 /\ primary_emotion \in {"sad", "angry"} THEN "critical"
    ELSE "normal"

\* the keys of response_templates
TemplateKeys ==
    {"sad", "angry", "fearful", "happy", "neutral", "surprised", "disgust"}

\* _respond_to_input, on the inputs of the model: the keyword answer, or
\* the generic one that depends on the emotion
RespondToInput(user_input, emotion) ==
    IF user_input = "help" THEN "input: help"
    ELSE IF emotion \in {"sad", "angry", "fearful"} THEN "input: empathetic"
    ELSE "input: generic"

\* lines 119-138: the lists the response is drawn from, in order
Response(primary_emotion, user_input, level) ==
    << IF Truthy(user_input) THEN RespondToInput(user_input[1], primary_emotion)
       ELSE IF primary_emotion \in TemplateKeys THEN primary_emotion
       ELSE "neutral" >>
    \o (CASE level = "supportive" -> <<"breathing_exercise">>
          [] level = "critical" -> <<"positive_reminder", "activity_suggestion">>
          [] OTHER -> << >>)

generate_response(emotion, confidence, audio_emotion, user_input) ==
    LET primary_emotion == PrimaryEmotion(emotion, audio_emotion)
        level == InterventionLevel(primary_emotion, confidence)
        response == Response(primary_emotion, user_input, level)
    IN  /\ intervention_level' = level
        /\ conversation_history' =
              Append(conversation_history,
                     [timestamp |-> IsoFormat(now),
                      emotion |-> primary_emotion,
                      confidence |-> confidence,
                      user_input |-> user_input,
                      response |-> response,
                      intervention_level |-> level])
        /\ call' = [op |-> "generate_response", result |-> response]
        /\ UNCHANGED <<now, issue_history, critical_thresholds, ticks, emotion_history>>

\* how many entries of the conversation have this value in this field
CountField(field, value) ==
    Cardinality({i \in 1..Len(conversation_history) :
                    conversation_history[i][field] = value})

\* max(set(emotions), key=emotions.count): one of the most frequent, the
\* iteration order of the set deciding between equals
MostCommon ==
    {e \in {conversation_history[i].emotion : i \in 1..Len(conversation_history)} :
        \A i \in 1..Len(conversation_history) :
            CountField("emotion", conversation_history[i].emotion)
               <= CountField("emotion", e)}

get_conversation_summary ==
    /\ IF conversation_history = << >>
       THEN call' = [op |-> "get_conversation_summary",
                     result |-> [total_interactions |-> 0]]
       ELSE \E most_common \in MostCommon :
              call' = [op |-> "get_conversation_summary",
                       result |->
                         [total_interactions |-> Len(conversation_history),
                          most_common_emotion |-> most_common,
                          critical_interventions |->
                              CountField("intervention_level", "critical"),
                          supportive_interventions |->
                              CountField("intervention_level", "supportive"),
                          recent_emotions |->
                              [i \in 1..Len(conversation_history) |->
                                  conversation_history[i].emotion]]]
    /\ UNCHANGED <<now, issue_history, critical_thresholds, ticks, others>>

reset_conversation ==
    /\ conversation_history' = << >>
    /\ call' = [op |-> "reset_conversation"]
    /\ UNCHANGED <<now, issue_history, critical_thresholds, ticks,
                   emotion_history, intervention_level>>

\* what the callers pass: src/main.py lines 118-122 and 183-185,
\* src/app.py lines 281 and 318
Emotions == {"sad", "Angry", "fearful", "happy"}
Confidences == {70, 80, 81}
AudioEmotions == {None, Some("sad")}
UserInputs == {None, Some("help")}

Respond ==
    /\ Len(conversation_history) < MaxTalk
    /\ \E emotion \in Emotions, confidence \in Confidences,
          audio_emotion \in AudioEmotions, user_input \in UserInputs :
          generate_response(emotion, confidence, audio_emotion, user_input)

NextConversation == Respond \/ get_conversation_summary \/ reset_conversation

SpecConversation == Init /\ [][NextConversation]_vars


-----------------------------------------------------------------------------
(* What the claims speak of, stated on the arguments and the result of     *)
(* the last call                                                           *)

IsCheck == call.op = "check_critical_issues"

\* the last call returned an issue of this kind
Raised(kind) ==
    /\ IsCheck
    /\ \E i \in 1..Len(call.result) : call.result[i].type = kind

\* the observation's timestamp is absent, or a string that parses
Parsable(e) == "timestamp" \notin DOMAIN e \/ e.timestamp.fmt = "iso"

AllParsable(emotion_data) ==
    \A i \in 1..Len(emotion_data) : Parsable(emotion_data[i])

\* seconds between the observation and instant t (an observation without a
\* timestamp counts as made at t)
AgeAt(e, t) == IF "timestamp" \in DOMAIN e THEN t - e.timestamp.t ELSE 0

\* the observations within `seconds` of instant t, in order
Within(emotion_data, t, seconds) ==
    SelectSeq(emotion_data, LAMBDA e : Parsable(e) /\ AgeAt(e, t) <= seconds)

\* the observation has a label of set S and a confidence of at least conf
Qualifies(e, S, conf) ==
    /\ "dominant_emotion" \in DOMAIN e
    /\ e.dominant_emotion \in S
    /\ "confidence" \in DOMAIN e
    /\ e.confidence >= conf

\* the number of adjacent pairs of s with distinct labels (an absent label
\* is distinct from every label)
LabelAt(s, i) == IF "dominant_emotion" \in DOMAIN s[i] THEN <<s[i].dominant_emotion>> ELSE << >>

DistinctPairs(s) ==
    Cardinality({i \in 1..(Len(s) - 1) : LabelAt(s, i) # LabelAt(s, i + 1)})

\* the 15-minute window of the last call, at the instant the sustained rule read
SustainedWindow == Within(call.emotion_data, call.reads[1], 900)

SustainedCondition ==
    /\ Len(SustainedWindow) >= 3
    /\ 10 * Len(SelectSeq(SustainedWindow,
                  LAMBDA e : Qualifies(e, {"sad", "angry", "fearful"}, 70)))
          >= 7 * Len(SustainedWindow)

C1_WitnessRatio ==
    /\ Raised("sustained_negative_emotion")
    /\ Len(SustainedWindow) = 10
    /\ Len(SelectSeq(SustainedWindow,
             LAMBDA e : Qualifies(e, {"sad", "angry", "fearful"}, 70))) = 7

\* the 5-minute window of the last call, at the instant the swings rule read
SwingsWindow == Within(call.emotion_data, call.reads[2], 300)

\* C2: a rapid_emotion_swings issue is raised if and only if the 5-minute
\* window holds at least 3 observations and at least 15 adjacent pairs of
\* in-window observations have distinct labels, whatever the labels are.
C2_SwingsRule ==
    IsCheck =>
        (Raised("rapid_emotion_swings") <=>
            /\ Len(SwingsWindow) >= 3
            /\ DistinctPairs(SwingsWindow) >= 15)

\* the rule fires on 15 changes between two non-empty labels
C2_Witness ==
    /\ Raised("rapid_emotion_swings")
    /\ DistinctPairs(SwingsWindow) = 15

\* the 5-minute window of the last call, at the instant the extreme rule read
ExtremeWindow == Within(call.emotion_data, call.reads[3], 300)

ExtremeCount ==
    Len(SelectSeq(ExtremeWindow, LAMBDA e : Qualifies(e, {"angry", "fearful"}, 90)))

\* C3: an extreme_emotion issue (severity high) is raised if and only if at
\* least 2 observations within 5 minutes have label angry or fearful and
\* confidence >= 0.9; exactly one such issue is returned.
C3_ExtremeRule ==
    IsCheck =>
        /\ Raised("extreme_emotion") <=> ExtremeCount >= 2
        /\ \A i, j \in 1..Len(call.result) :
              /\ call.result[i].type = "extreme_emotion"
              /\ call.result[j].type = "extreme_emotion"
              => i = j /\ call.result[i].severity = "high"

\* C3 restricted to calls that do not abort: the rule as the code has it
C3_ExtremeRuleCompleted ==
    IsCheck /\ ~call.raised => (Raised("extreme_emotion") <=> ExtremeCount >= 2)

\* two in-window angry observations at 0.95 raise the issue
C3_Witness ==
    /\ Raised("extreme_emotion")
    /\ call.emotion_data = <<Obs(0, "angry", 95), Obs(0, "angry", 95)>>

\* C4: without last_interaction no communication_breakdown issue is raised;
\* with it, one (severity high) is raised if and only if at least 30 minutes
\* have elapsed since last_interaction, 30 minutes exactly included.
C4_BreakdownRule ==
    IsCheck =>
        /\ Raised("communication_breakdown") <=>
              /\ call.last_interaction # None
              /\ call.reads[4] - call.last_interaction[1] >= 1800
        /\ \A i \in 1..Len(call.result) :
              call.result[i].type = "communication_breakdown"
              => call.result[i].severity = "high"

\* C4 restricted to calls that do not abort: the rule as the code has it
C4_BreakdownRuleCompleted ==
    IsCheck /\ ~call.raised =>
        (Raised("communication_breakdown") <=>
            /\ call.last_interaction # None
            /\ call.reads[4] - call.last_interaction[1] >= 1800)

\* the rule fires at exactly 30 minutes
C4_Witness ==
    /\ Raised("communication_breakdown")
    /\ call.reads[4] - call.last_interaction[1] = 1800


\* every observation of the last call is labelled neutral at confidence 1.0
AllNeutral ==
    \A i \in 1..Len(call.emotion_data) :
        /\ "dominant_emotion" \in DOMAIN call.emotion_data[i]
        /\ call.emotion_data[i].dominant_emotion = "neutral"
        /\ "confidence" \in DOMAIN call.emotion_data[i]
        /\ call.emotion_data[i].confidence = 100

ParsableOnly == SelectSeq(call.emotion_data, Parsable)

\* C6: an observation whose timestamp does not parse is left out of every
\* window and the call completes on the remaining observations: the call
\* does not raise, and returns what it returns for the input without the
\* unparsable observations.
C6_MalformedExcluded ==
    IsCheck =>
        /\ ~call.raised
        /\ call.result =
              RunRules(ParsableOnly, call.last_interaction, call.reads).issues

\* the rank of an issue kind in the evaluation order
KindRank(kind) ==
    CASE kind = "sustained_negative_emotion" -> 1
      [] kind = "rapid_emotion_swings" -> 2
      [] kind = "extreme_emotion" -> 3
      [] kind = "communication_breakdown" -> 4

\* C9: the returned sequence holds at most one issue of each kind, in the
\* order sustained_negative_emotion, rapid_emotion_swings, extreme_emotion,
\* communication_breakdown.
C9_FixedOrder ==
    IsCheck =>
        \A i, j \in 1..Len(call.result) :
            i < j => KindRank(call.result[i].type) < KindRank(call.result[j].type)

\* all four rules fire in one call, the medium-severity one second
C9_Witness ==
    /\ IsCheck
    /\ Len(call.result) = 4
    /\ call.result[2].severity = "medium"

\* C10: all rules of one call judge against the same now() snapshot: the
\* result is the one the rules give at one single instant of the call.
C10_OneSnapshot ==
    IsCheck /\ ~call.raised =>
        \E k \in 1..NumReads :
            call.result =
                RunRules(call.emotion_data, call.last_interaction,
                         [i \in 1..NumReads |-> call.reads[k]]).issues


\* the step is a call of check_critical_issues
IsCheckStep ==
    /\ call'.op = "check_critical_issues"
    /\ call' # call \/ issue_history' # issue_history

\* the history entry is the record of this issue
EntryOf(entry, issue) ==
    /\ entry.issue_type = issue.type
    /\ entry.severity = issue.severity
    /\ entry.details = issue.details

\* C7: a call of check_critical_issues appends one entry per returned issue,
\* in the returned order, to the history it found, and nothing else; a call
\* that returns no issue leaves the history unchanged.
C7_LoggedOnce ==
    [][IsCheckStep =>
        /\ Len(issue_history') = Len(issue_history) + Len(call'.result)
        /\ SubSeq(issue_history', 1, Len(issue_history)) = issue_history
        /\ \A i \in 1..Len(call'.result) :
              EntryOf(issue_history'[Len(issue_history) + i], call'.result[i])
      ]_vars

\* a call that returns several issues on top of an earlier entry
C7_Witness ==
    /\ IsCheck
    /\ Len(call.result) >= 2
    /\ Len(issue_history) > Len(call.result)
    /\ \A i \in 1..Len(call.result) :
          EntryOf(issue_history[Len(issue_history) - Len(call.result) + i],
                  call.result[i])

\* the raised-at instants of the history never decrease
TimeOrdered ==
    \A i, j \in 1..Len(issue_history) :
        i < j => issue_history[i].timestamp.t <= issue_history[j].timestamp.t

\* C8: the history is append-only and time-ordered: no call removes,
\* reorders or modifies an entry, the length never decreases, and the
\* raised-at instants are non-decreasing in insertion order.
C8_AppendOnly ==
    /\ []TimeOrdered
    /\ [][/\ Len(issue_history') >= Len(issue_history)
          /\ SubSeq(issue_history', 1, Len(issue_history)) = issue_history
         ]_vars

\* a history query that leaves out an old entry the history still holds,
\* beside a later one raised at a later instant
C8_Witness ==
    /\ call.op = "get_issue_history"
    /\ Len(issue_history) >= 2
    /\ Len(call.result) < Len(issue_history)
    /\ issue_history[1].timestamp.t < issue_history[Len(issue_history)].timestamp.t

Kinds ==
    {"sustained_negative_emotion", "rapid_emotion_swings",
     "extreme_emotion", "communication_breakdown"}

\* the number of history entries of this kind
CountOf(kind) ==
    Cardinality({i \in 1..Len(issue_history) : issue_history[i].issue_type = kind})

\* the step is a call that passes the arguments of the call before it
SameArguments ==
    /\ call.op = "check_critical_issues"
    /\ IsCheckStep
    /\ call'.emotion_data = call.emotion_data
    /\ call'.last_interaction = call.last_interaction

\* the rule of this kind sees, in the new call, the window it saw before
SameWindow(kind) ==
    CASE kind = "sustained_negative_emotion" -> SustainedWindow' = SustainedWindow
      [] kind = "rapid_emotion_swings" -> SwingsWindow' = SwingsWindow
      [] kind = "extreme_emotion" -> ExtremeWindow' = ExtremeWindow
      [] kind = "communication_breakdown" -> call'.reads[4] >= call.reads[4]

\* C11: issues are not de-duplicated across calls: a call that passes the
\* arguments of the call before it, while the window that made a rule fire
\* is the same, returns that rule's issue again and adds a second, separate
\* entry of that kind to the history.
C11_NoDeduplication ==
    [][SameArguments =>
        \A kind \in Kinds :
            Raised(kind) /\ SameWindow(kind) =>
                /\ Raised(kind)'
                /\ CountOf(kind) >= 1
                /\ CountOf(kind)' = CountOf(kind) + 1
      ]_vars

\* the same issue raised by two calls one second apart, logged twice
C11_Witness ==
    /\ IsCheck
    /\ Len(call.result) = 1
    /\ Len(issue_history) = 2
    /\ issue_history[1].issue_type = call.result[1].type
    /\ issue_history[2].issue_type = call.result[1].type
    /\ issue_history[1].details = issue_history[2].details
    /\ issue_history[1].timestamp.t < issue_history[2].timestamp.t

\* the entries a call of check_critical_issues added, paired with its issues
NewEntry(i) == issue_history'[Len(issue_history) + i]

C13_HistoryWindow ==
    call.op = "get_issue_history" =>
        call.result =
            SelectSeq(issue_history,
                      LAMBDA entry : call.at - entry.timestamp.t <= call.hours * 3600)

\* a 24-hour query that returns the later entry and leaves out one logged
\* 25 hours before
C13_Witness ==
    /\ call.op = "get_issue_history"
    /\ call.hours = 24
    /\ Len(call.result) >= 1
    /\ \E k \in 1..Len(issue_history) :
          call.at - issue_history[k].timestamp.t = 25 * 3600

\* C14: get_issue_history and generate_report are queries: a step of either
\* leaves issue_history and critical_thresholds as they were, and the report
\* is made of the issues passed in, which stay as they were.
C14_PureQueries ==
    [][/\ call'.op \in {"get_issue_history", "generate_report"} =>
            /\ issue_history' = issue_history
            /\ critical_thresholds' = critical_thresholds
       /\ call'.op = "generate_report" /\ call' # call =>
            call'.issues \in ReportInputs
      ]_vars

\* a query that returns nothing of a history that still holds its entries
C14_Witness ==
    /\ call.op = "get_issue_history"
    /\ call.result = << >>
    /\ Len(issue_history) >= 1
    /\ critical_thresholds = InitialThresholds

\* every observation of the last call carries this label
AllLabelled(labels) ==
    \A i \in 1..Len(call.emotion_data) :
        /\ "dominant_emotion" \in DOMAIN call.emotion_data[i]
        /\ call.emotion_data[i].dominant_emotion \in labels

\* C15: at least 5 observations, all inside the 15-minute window, all sad
\* at confidence 0.8, and no last_interaction: the call returns exactly one
\* issue, a sustained_negative_emotion of severity high whose
\* negative_percentage is 100; no other rule fires.
C15_AllSad ==
    /\ IsCheck
    /\ Len(call.emotion_data) >= 5
    /\ Len(SustainedWindow) = Len(call.emotion_data)
    /\ AllLabelled({"sad"})
    /\ \A i \in 1..Len(call.emotion_data) :
          /\ "confidence" \in DOMAIN call.emotion_data[i]
          /\ call.emotion_data[i].confidence = 80
    /\ call.last_interaction = None
    => /\ ~call.raised
       /\ Len(call.result) = 1
       /\ call.result[1].type = "sustained_negative_emotion"
       /\ call.result[1].severity = "high"
       /\ call.result[1].details.negative_percentage = Frac(100, 1)

\* exactly 5 observations on the edge of the window, all sad at 0.8
C15_Witness ==
    /\ IsCheck
    /\ Len(call.emotion_data) = 5
    /\ \A i \in 1..5 : call.emotion_data[i] = Obs(call.reads[1] - 900, "sad", 80)
    /\ call.last_interaction = None
    /\ Len(call.result) = 1
    /\ call.result[1].details.negative_percentage = Frac(100, 1)

\* the observations of the last call alternate between happy and sad, all
\* of them inside the 5-minute window
AlternatesHappySad ==
    /\ IsCheck
    /\ AllLabelled({"happy", "sad"})
    /\ Len(SwingsWindow) = Len(call.emotion_data)
    /\ DistinctPairs(call.emotion_data) = Len(call.emotion_data) - 1
    /\ call.last_interaction = None

\* C16: with swings_per_minute 3 and a 5-minute window, four in-window
\* observations happy, sad, happy, sad (3 changes) raise no issue; an
\* in-window sequence alternating happy and sad with at least 15 changes
\* raises exactly one issue, a rapid_emotion_swings of severity medium.
C16_SwingsExample ==
    AlternatesHappySad =>
        /\ ~call.raised
        /\ Len(call.emotion_data) = 4 => call.result = << >>
        /\ DistinctPairs(call.emotion_data) >= 15 =>
              /\ Len(call.result) = 1
              /\ call.result[1].type = "rapid_emotion_swings"
              /\ call.result[1].severity = "medium"

\* sixteen alternating observations: exactly 15 changes, one issue
C16_Witness ==
    /\ AlternatesHappySad
    /\ Len(call.emotion_data) = 16
    /\ Len(call.result) = 1
    /\ call.result[1].details.swings_detected = 15

NegativeCount ==
    Len(SelectSeq(SustainedWindow,
          LAMBDA e : Qualifies(e, {"sad", "angry", "fearful"}, 70)))

\* the issue of this kind that the last call returned
IssueOf(kind) ==
    call.result[CHOOSE i \in 1..Len(call.result) : call.result[i].type = kind]

\* C17: an observation without a confidence is treated as confidence 0 and
\* one without a label as no label: neither is counted by the sustained or
\* the extreme rule, whose issues are raised on the observations that have
\* both alone, while every in-window observation, labelled or not, counts
\* toward the size of the window.
C17_AbsentFields ==
    IsCheck =>
        /\ Raised("sustained_negative_emotion") =>
              /\ 10 * NegativeCount >= 7 * Len(SustainedWindow)
              /\ IssueOf("sustained_negative_emotion").details.negative_percentage
                    = Frac(NegativeCount * 100, Len(SustainedWindow))
        /\ Raised("extreme_emotion") =>
              /\ ExtremeCount >= 2
              /\ IssueOf("extreme_emotion").details.occurrences = ExtremeCount

\* both rules fire on four angry observations at 0.95 and one without a
\* label: 80% of a window of five
C17_Witness ==
    /\ Raised("sustained_negative_emotion")
    /\ Raised("extreme_emotion")
    /\ \E i \in 1..Len(call.emotion_data) :
          "dominant_emotion" \notin DOMAIN call.emotion_data[i]
    /\ NegativeCount = 4
    /\ Len(SustainedWindow) = 5

\* the confidence is a probability
InRange(e) ==
    "confidence" \in DOMAIN e => e.confidence >= 0 /\ e.confidence <= 100

\* C18: an observation whose confidence is outside [0, 1] is left out of
\* the windows and the counts: it never satisfies a confidence cutoff, and
\* it never aborts the call.
C18_OutOfRangeExcluded ==
    IsCheck =>
        /\ AllParsable(call.emotion_data) => ~call.raised
        /\ Raised("sustained_negative_emotion") =>
              10 * Len(SelectSeq(SustainedWindow, LAMBDA e :
                        InRange(e) /\ Qualifies(e, {"sad", "angry", "fearful"}, 70)))
                 >= 7 * Len(SelectSeq(SustainedWindow, InRange))
        /\ Raised("extreme_emotion") =>
              Len(SelectSeq(ExtremeWindow, LAMBDA e :
                     InRange(e) /\ Qualifies(e, {"angry", "fearful"}, 90))) >= 2

\* an extreme_emotion issue raised on two observations at confidence 1.5
C18_Witness ==
    /\ Raised("extreme_emotion")
    /\ Len(call.emotion_data) = 2
    /\ \A i \in 1..2 : call.emotion_data[i].confidence = 150

\* a rule whose window holds fewer observations than it needs is silent
SilentBelowMinimum ==
    /\ Len(SustainedWindow) < 3 => ~Raised("sustained_negative_emotion")
    /\ Len(SwingsWindow) < 3 => ~Raised("rapid_emotion_swings")
    /\ Len(ExtremeWindow) < 2 => ~Raised("extreme_emotion")
    /\ call.result = << >> => issue_history = << >>

\* the window of some rule holds fewer observations than the rule needs
BelowMinimum ==
    \/ Len(SustainedWindow) < 3
    \/ Len(SwingsWindow) < 3
    \/ Len(ExtremeWindow) < 2

\* C19: insufficient data is a silent no-op: on an empty sequence, or when
\* a rule's window holds fewer observations than the rule needs, that rule
\* raises no issue and the call raises no error; a call in which no rule
\* fires returns an empty sequence and leaves the (empty) history unchanged.
C19_InsufficientData ==
    IsCheck =>
        /\ SilentBelowMinimum
        /\ BelowMinimum => ~call.raised

\* C19 on the inputs whose timestamps all parse: there the claim holds
C19_InsufficientDataParsable ==
    IsCheck /\ AllParsable(call.emotion_data) =>
        /\ SilentBelowMinimum
        /\ BelowMinimum => ~call.raised

\* a call aborted on one observation that no window holds
C19_Witness ==
    /\ IsCheck
    /\ Len(call.emotion_data) = 1
    /\ ExtremeWindow = << >>
    /\ call.raised

SeverityOf(kind) ==
    IF kind = "rapid_emotion_swings" THEN "medium" ELSE "high"

RecommendationOf(kind) ==
    CASE kind = "sustained_negative_emotion" ->
           "Immediate psychological support recommended. Consider ground control notification."
      [] kind = "rapid_emotion_swings" ->
           "Monitor closely. May indicate stress or instability."
      [] kind = "extreme_emotion" ->
           "Immediate attention required. Consider ground control notification."
      [] kind = "communication_breakdown" ->
           "Attempt to re-establish communication. If unsuccessful, notify ground control."

\* C20: severity and recommendation are fixed per kind of issue: high for
\* sustained_negative_emotion, extreme_emotion and communication_breakdown,
\* medium for rapid_emotion_swings, never low, and one recommendation
\* string per kind whatever the observations were.
C20_FixedPerKind ==
    IsCheck =>
        \A i \in 1..Len(call.result) :
            /\ call.result[i].type \in Kinds
            /\ call.result[i].severity = SeverityOf(call.result[i].type)
            /\ call.result[i].severity # "low"
            /\ call.result[i].recommendation = RecommendationOf(call.result[i].type)

\* a communication_breakdown raised at 30 minutes exactly, beside the three
\* other kinds
C20_Witness ==
    /\ Raised("communication_breakdown")
    /\ call.reads[4] - call.last_interaction[1] = 1800
    /\ \A kind \in Kinds : Raised(kind)
    /\ IssueOf("communication_breakdown").severity = "high"

\* the values of the thresholds, as the constructor sets them
DefaultValues ==
    /\ critical_thresholds.sustained_negative_emotion.emotion = {"sad", "angry", "fearful"}
    /\ critical_thresholds.sustained_negative_emotion.duration_minutes = 15
    /\ critical_thresholds.sustained_negative_emotion.confidence_threshold = 70
    /\ critical_thresholds.rapid_emotion_swings.swings_per_minute = 3
    /\ critical_thresholds.rapid_emotion_swings.time_window_minutes = 5
    /\ critical_thresholds.extreme_emotion.emotion = {"angry", "fearful"}
    /\ critical_thresholds.extreme_emotion.confidence_threshold = 90
    /\ critical_thresholds.extreme_emotion.duration_minutes = 5
    /\ critical_thresholds.communication_breakdown.no_response_minutes = 30

\* the last call, if it completed, judged its input against the defaults
JudgedAgainstDefaults ==
    IsCheck /\ ~call.raised =>
        /\ Raised("sustained_negative_emotion") <=>
              Len(call.emotion_data) >= 5 /\ SustainedCondition
        /\ Raised("extreme_emotion") <=> ExtremeCount >= 2
        /\ Raised("communication_breakdown") <=>
              /\ call.last_interaction # None
              /\ call.reads[4] - call.last_interaction[1] >= 30 * 60

\* C21: the thresholds are fixed at construction: in every state of a
\* session of check_critical_issues, get_issue_history and generate_report
\* calls critical_thresholds holds the defaults (15 min / 0.7, 3 per min /
\* 5 min, 0.9 / 5 min, 30 min), no step changes it, and every call is
\* judged against them.
C21_ThresholdsFixed ==
    /\ [](DefaultValues /\ JudgedAgainstDefaults)
    /\ [][critical_thresholds' = critical_thresholds]_vars

\* a call judged against the defaults after two logged issues and a query
C21_Witness ==
    /\ IsCheck
    /\ Len(issue_history) >= 3
    /\ ticks >= 1
    /\ Raised("communication_breakdown")
    /\ call.reads[4] - call.last_interaction[1] = 30 * 60
    /\ DefaultValues

IsReport == call.op = "generate_report"

\* C22: generate_report of an empty list returns exactly the fixed sentence
\* 'No critical issues detected. All systems normal.', with no header and no
\* timestamp, whatever the state of the detector.
C22_EmptyReport ==
    IsReport /\ call.issues = << >> =>
        call.result = << [text |-> "No critical issues detected. All systems normal."] >>

\* the fixed sentence, reported by a detector whose history is not empty,
\* after the clock has advanced
C22_Witness ==
    /\ IsReport
    /\ call.issues = << >>
    /\ Len(call.result) = 1
    /\ Len(issue_history) >= 1
    /\ call.at > 0

\* the lines of a report after its timestamp line
Body(report) == SubSeq(report, 2, Len(report))

\* the report holds one block of four lines per issue, in input order,
\* numbered from 1
BlocksInOrder ==
    /\ Len(call.result) = 2 + 4 * Len(call.issues)
    /\ call.result[1].strftime = call.at
    /\ \A i \in 1..Len(call.issues) :
          /\ call.result[4 * i - 1].index = i
          /\ call.result[4 * i - 1].title = Title(call.issues[i].type)
          /\ call.result[4 * i].severity = Upper(call.issues[i].severity)
          /\ call.result[4 * i + 1].json = call.issues[i].details
          /\ call.result[4 * i + 2].recommendation = call.issues[i].recommendation

\* C23: generate_report is deterministic: a report of a non-empty list is a
\* timestamp line followed by one block per issue in input order, numbered
\* from 1, and two reports of the same list are identical after the
\* timestamp line, whatever the history is and whatever was called before.
C23_ReportDeterministic ==
    /\ [](IsReport /\ call.issues # << >> => BlocksInOrder)
    /\ [][IsReport /\ IsReport' /\ call'.issues = call.issues /\ call.issues # << >>
            => Body(call'.result) = Body(call.result)]_vars

\* the report of two issues: ten lines, the second block numbered 2
C23_Witness ==
    /\ IsReport
    /\ Len(call.issues) = 2
    /\ Len(call.result) = 10
    /\ call.result[7].index = 2
    /\ call.at > 0

\* C24: whenever a sustained_negative_emotion issue is raised, its
\* negative_percentage is 100 x negative_count / window size, between 70
\* and 100 inclusive, and its duration_minutes is the configured 15.
C24_SustainedDetails ==
    Raised("sustained_negative_emotion") =>
        LET details == IssueOf("sustained_negative_emotion").details
        IN  /\ details.negative_percentage
                  = Frac(100 * NegativeCount, Len(SustainedWindow))
            /\ details.negative_percentage.num >= 70 * details.negative_percentage.den
            /\ details.negative_percentage.num <= 100 * details.negative_percentage.den
            /\ details.duration_minutes = 15

\* an issue raised at 70% exactly, on a window that holds observations
\* under the confidence cutoff
C24_Witness ==
    /\ Raised("sustained_negative_emotion")
    /\ IssueOf("sustained_negative_emotion").details.negative_percentage = Frac(70, 1)
    /\ IssueOf("sustained_negative_emotion").details.duration_minutes = 15
    /\ NegativeCount < Len(SustainedWindow)

\* the in-window observations that qualify as extreme, in order
ExtremeQualifying ==
    SelectSeq(ExtremeWindow, LAMBDA e : Qualifies(e, {"angry", "fearful"}, 90))

\* C25: whenever an extreme_emotion issue is raised, its details report the
\* label and the confidence of the most recent in-window observation that
\* qualified as extreme, and occurrences is the number of qualifying
\* observations in the window, at least 2.
C25_ExtremeDetails ==
    Raised("extreme_emotion") =>
        LET details == IssueOf("extreme_emotion").details
            last == ExtremeQualifying[Len(ExtremeQualifying)]
        IN  /\ details.occurrences = Len(ExtremeQualifying)
            /\ details.occurrences >= 2
            /\ details.emotion = <<last.dominant_emotion>>
            /\ details.confidence = last.confidence

\* C25, the count alone: occurrences is the number of qualifying
\* observations in the window and at least 2
C25_Occurrences ==
    Raised("extreme_emotion") =>
        /\ IssueOf("extreme_emotion").details.occurrences = Len(ExtremeQualifying)
        /\ Len(ExtremeQualifying) >= 2

\* an extreme_emotion issue whose details name a sad observation
C25_Witness ==
    /\ Raised("extreme_emotion")
    /\ IssueOf("extreme_emotion").details.emotion = <<"sad">>
    /\ IssueOf("extreme_emotion").details.confidence = 100
    /\ Len(ExtremeQualifying) = 2

\* the number of observations of s whose label is literally one of labels
LabelledIn(s, labels) ==
    Len(SelectSeq(s, LAMBDA e :
          "dominant_emotion" \in DOMAIN e /\ e.dominant_emotion \in labels))

\* C26: the rules match labels literally: a sustained or extreme issue is
\* raised only on enough observations labelled sad, angry or fearful (angry
\* or fearful), so an input made only of observations labelled fear, at any
\* confidence, raises neither.
C26_LiteralLabels ==
    IsCheck =>
        /\ Raised("sustained_negative_emotion") =>
              10 * LabelledIn(SustainedWindow, {"sad", "angry", "fearful"})
                 >= 7 * Len(SustainedWindow)
        /\ Raised("extreme_emotion") =>
              LabelledIn(ExtremeWindow, {"angry", "fearful"}) >= 2
        /\ AllLabelled({"fear"}) =>
              /\ ~Raised("sustained_negative_emotion")
              /\ ~Raised("extreme_emotion")

\* five observations labelled fear at confidence 1.0, all in the windows:
\* no issue
C26_Witness ==
    /\ IsCheck
    /\ call.emotion_data = Repeat(Obs(call.reads[1], "fear", 100), 5)
    /\ call.result = << >>

\* the step is a call at the instant of the call before it, with the same
\* observations and last interaction and another audio_data
OnlyAudioDiffers ==
    /\ SameArguments
    /\ call'.reads = call.reads
    /\ call'.audio_data # call.audio_data

\* C27: audio_data has no influence on check_critical_issues: two calls at
\* the same instant that differ in audio_data alone return the same issues
\* (or abort alike) and append the same entries to the history.
C27_AudioIgnored ==
    [][OnlyAudioDiffers =>
        /\ call'.result = call.result
        /\ call'.raised = call.raised
        /\ Len(issue_history') = Len(issue_history) + Len(call.result)
        /\ \A i \in 1..Len(call.result) :
              NewEntry(i) = issue_history[Len(issue_history) - Len(call.result) + i]
      ]_vars

\* the second of two calls that differ in audio_data alone: it logged the
\* entry the first had logged
C27_Witness ==
    /\ IsCheck
    /\ call.audio_data = SomeAudio
    /\ Len(call.result) = 1
    /\ Len(issue_history) = 2
    /\ issue_history[1] = issue_history[2]

\* the observations of s that have no timestamp
Unstamped(s) == SelectSeq(s, LAMBDA e : "timestamp" \notin DOMAIN e)

\* C28: an observation with no timestamp is treated as made at the instant
\* of the evaluation: it is in the window of every rule and every rule
\* counts it, however old the other observations are. Each rule fires on the
\* windows that hold every unstamped observation, and its details count
\* them.
C28_NoTimestamp ==
    /\ IsCheck
    /\ Unstamped(call.emotion_data) # << >>
    /\ AllParsable(call.emotion_data)
    => /\ ~call.raised
       /\ Unstamped(SustainedWindow) = Unstamped(call.emotion_data)
       /\ Unstamped(SwingsWindow) = Unstamped(call.emotion_data)
       /\ Unstamped(ExtremeWindow) = Unstamped(call.emotion_data)
       /\ Raised("sustained_negative_emotion") <=>
             Len(call.emotion_data) >= 5 /\ SustainedCondition
       /\ Raised("rapid_emotion_swings") <=>
             /\ Len(call.emotion_data) >= 5
             /\ Len(SwingsWindow) >= 3
             /\ DistinctPairs(SwingsWindow) >= 15
       /\ Raised("extreme_emotion") <=> ExtremeCount >= 2
       /\ Raised("extreme_emotion") =>
             IssueOf("extreme_emotion").details.occurrences = ExtremeCount
       /\ Raised("rapid_emotion_swings") =>
             IssueOf("rapid_emotion_swings").details.swings_detected
                = DistinctPairs(SwingsWindow)

\* an extreme_emotion issue raised on two unstamped observations that
\* follow three observations more than a day old
C28_Witness ==
    /\ Raised("extreme_emotion")
    /\ Len(call.emotion_data) = 5
    /\ Len(Unstamped(call.emotion_data)) = 2
    /\ ExtremeWindow = Unstamped(call.emotion_data)
    /\ IssueOf("extreme_emotion").details.occurrences = 2

\* the step appends an observation to the buffer
IsAppendStep == now' = now + 1 /\ emotion_history' # << >>

\* C29: the buffer of the caller is bounded: it never holds more than 100
\* observations, it holds the most recent arrivals in arrival order, and an
\* append to a full buffer drops the oldest so that the buffer is the 100
\* most recent observations.
C29_BufferBounded ==
    /\ [](/\ Len(emotion_history) <= 100
          /\ \A i \in 1..Len(emotion_history) :
                emotion_history[i].timestamp.t = now - Len(emotion_history) + i - 1)
    /\ [][IsAppendStep =>
            /\ Len(emotion_history') = IF Len(emotion_history) < 100
                                        THEN Len(emotion_history) + 1 ELSE 100
            /\ emotion_history'[Len(emotion_history')].timestamp.t = now
            /\ \A i \in 1..(Len(emotion_history') - 1) :
                  emotion_history'[i]
                     = emotion_history[Len(emotion_history) - Len(emotion_history') + 1 + i]
         ]_vars

\* a full buffer whose oldest observation is not the first that arrived
C29_Witness ==
    /\ Len(emotion_history) = 100
    /\ emotion_history[1].timestamp.t >= 1
    /\ emotion_history[100].timestamp.t = now - 1

\* no 'critical' level, in the field or in the entries of the conversation
NeverCritical ==
    /\ intervention_level \in {"normal", "supportive"}
    /\ \A i \in 1..Len(conversation_history) :
          conversation_history[i].intervention_level \in {"normal", "supportive"}

C30_NeverCriticalReported ==
    /\ NeverCritical
    /\ call.op = "get_conversation_summary"
        /\ "critical_interventions" \in DOMAIN call.result
        => call.result.critical_interventions = 0

C30_WitnessShadowed ==
    /\ call.op = "generate_response"
    /\ \E i \in 1..Len(conversation_history) :
          /\ conversation_history[i].emotion = "angry"
          /\ conversation_history[i].confidence = 81
          /\ conversation_history[i].intervention_level = "supportive"

=============================================================================
